---- MODULE Spec2Model ----
(***************************************************************************)
(* Model of the collector's Run/Job orchestration:                         *)
(*   collector/state.py         InMemoryState (STATE)                      *)
(*   collector/orchestrator.py  Orchestrator.start_run / finalize_run      *)
(*   collector/tasks.py         process_channel_job(_async),               *)
(*                              finalize_run_task                          *)
(* The broker delivers process_channel_job messages at least once; the     *)
(* resolver is an awaited call, so a worker is suspended between writing   *)
(* PROCESSING and writing the terminal status.  finalize_run is plain      *)
(* Python run by whichever thread calls it; its reads of STATE are         *)
(* separate steps.                                                         *)
(***************************************************************************)
EXTENDS Integers, Sequences, FiniteSets, TLC

\* ------------------------------------------------------------------ bounds
MaxRuns == 1
MaxInputs == 2
NumWorkers == 2
NumFinalizers == 2
MaxRedeliveries == 1
NumCallers == 2
MaxTime == 3
CooldownTime == 2
MaxGetKeyCalls == 4
MaxExecuteRequests == 3
MaxThrottleCalls == 3
MaxMaxRequests == 2
MaxPeriod == 2
MaxStoreId == 2

Workers == 1..NumWorkers
Finalizers == 1..NumFinalizers
Callers == 1..NumCallers

None == "None"

\* Channel inputs are sequences of characters; " " is whitespace.
ChannelInputs == { <<>>, <<" ">>, <<"a">>, <<" ", "a", " ">> }

RECURSIVE SeqsUpTo(_, _)
SeqsUpTo(S, n) ==
    IF n = 0 THEN { <<>> }
    ELSE LET shorter == SeqsUpTo(S, n - 1)
         IN  shorter \cup { Append(s, x) : s \in { t \in shorter : Len(t) = n - 1 }, x \in S }

InputLists == SeqsUpTo(ChannelInputs, MaxInputs)
OwnerIds == {1}

VARIABLES
    runs,             \* STATE._runs : run id -> Run
    jobs,             \* STATE._jobs : job id -> Job
    run_id_counter,   \* orchestrator._run_id_counter (next value)
    job_id_counter,   \* orchestrator._job_id_counter (next value)
    queue,            \* process_channel_job messages held by the broker
    redeliveries,     \* how many deliveries left their message in the broker
    sr,               \* the start_run call in progress (its locals and position)
    wk,               \* per worker: the process_channel_job execution in progress
    fin,              \* per caller: the finalize_run call in progress
    api_keys,         \* the list YouTubeClientRotator was constructed with
    _api_keys,        \* YouTubeClientRotator._api_keys : deque of live keys
    _cooldown_keys,   \* YouTubeClientRotator._cooldown_keys, in insertion order
    now,              \* time()
    get_key_calls,    \* how many direct _get_key calls were made
    last_key,         \* what the last direct _get_key call returned
    cooled,           \* whether _cooldown_key was ever called directly
    se,               \* per caller: the safe_execute call in progress
    total_keys,       \* KeyRotator.total_keys
    _current_index,   \* KeyRotator._current_index
    service_key,      \* the key YouTubeClient.youtube_service was built with
    execute_requests, \* how many _execute_request calls were made
    xr,               \* the _execute_request call in progress
    zset,             \* the Redis sorted set throttle:{user_id}
    max_requests,     \* throttle's max_requests argument
    period,           \* throttle's period argument
    throttle_calls,   \* how many throttle calls were made
    th,               \* per caller: the throttle call in progress
    unslept,          \* per time: how many calls returned then without sleeping
    rv,               \* the resolver call in progress
    raised            \* what the last direct call of the State store raised

orchestrator_vars ==
    <<runs, jobs, run_id_counter, job_id_counter, queue, redeliveries, sr, wk, fin>>
client_vars ==
    <<api_keys, _api_keys, _cooldown_keys, now, get_key_calls, last_key, cooled, se>>
sync_vars == <<total_keys, _current_index, service_key, execute_requests, xr>>
limiter_vars == <<zset, max_requests, period, throttle_calls, th, unslept>>
resolver_vars == <<rv>>
store_vars == <<raised>>
vars == <<orchestrator_vars, client_vars, sync_vars, limiter_vars, resolver_vars,
          store_vars>>

\* What the actions of one component leave alone.
outside_orchestrator == <<client_vars, sync_vars, limiter_vars, resolver_vars, store_vars>>
outside_client == <<orchestrator_vars, sync_vars, limiter_vars, resolver_vars, store_vars>>
outside_sync == <<orchestrator_vars, client_vars, limiter_vars, resolver_vars, store_vars>>
outside_limiter == <<orchestrator_vars, client_vars, sync_vars, resolver_vars, store_vars>>
outside_resolver == <<orchestrator_vars, client_vars, sync_vars, limiter_vars, store_vars>>
outside_store ==
    <<run_id_counter, job_id_counter, queue, redeliveries, sr, wk, fin,
      client_vars, sync_vars, limiter_vars, resolver_vars>>

\* --------------------------------------------------------------- models.py
Run(id, owner_id, status) ==
    [id |-> id, owner_id |-> owner_id, status |-> status,
     finished_at |-> None, summary |-> None]

Job(id, run_id, input_channel, status) ==
    [id |-> id, run_id |-> run_id, input_channel |-> input_channel,
     youtube_channel_id |-> None, status |-> status, last_error |-> None]

\* ---------------------------------------------------------------- state.py
\* get_run / get_job return Optional[...]: {} is None, {x} is the record x.
get_run(run_id) == IF run_id \in DOMAIN runs THEN {runs[run_id]} ELSE {}
get_job(job_id) == IF job_id \in DOMAIN jobs THEN {jobs[job_id]} ELSE {}
get_jobs_for_run(run_id) == { j \in DOMAIN jobs : jobs[j].run_id = run_id }
create_run(run) == runs @@ (run.id :> run)
\* A create_job that has not stored the Job yet when it returns.
create_job_later(job) == jobs
create_job(job) == jobs @@ (job.id :> job)

\* ------------------------------------------------------------ start_run
\* str.strip(): drop leading and trailing whitespace.
RECURSIVE LStrip(_)
LStrip(s) == IF s # <<>> /\ Head(s) = " " THEN LStrip(Tail(s)) ELSE s

RECURSIVE RStrip(_)
RStrip(s) == IF s # <<>> /\ s[Len(s)] = " " THEN RStrip(SubSeq(s, 1, Len(s) - 1)) ELSE s

Strip(s) == RStrip(LStrip(s))

\* `not channel_input or not channel_input.strip()`
IsBlank(channel_input) == channel_input = <<>> \/ Strip(channel_input) = <<>>

SrIdle == [pc |-> "idle", run_id |-> 0, channel_inputs |-> <<>>, i |-> 1,
           job_id |-> 0, jobs_launched |-> 0]

\* A process_channel_job message as `.delay(job_id=..., run_id=...)` sends it.
ProcessChannelJobMsg(job_id, run_id) ==
    [task |-> "process_channel_job", job_id |-> job_id, run_id |-> run_id]

\* Every message start_run can send within the bounds.
Messages ==
    { ProcessChannelJobMsg(j, r) : j \in 1..(MaxRuns * MaxInputs), r \in 1..MaxRuns }

\* `run_id = next(_run_id_counter)`; `STATE.create_run(Run(..., status="RUNNING"))`
StartRunBegin(owner_id, channel_inputs) ==
    /\ sr.pc \in {"idle", "returned"}
    /\ run_id_counter <= MaxRuns
    /\ LET run_id == run_id_counter
       IN  /\ run_id_counter' = run_id_counter + 1
           /\ runs' = create_run(Run(run_id, owner_id, "RUNNING"))
           /\ sr' = [SrIdle EXCEPT !.pc = "loop", !.run_id = run_id,
                                   !.channel_inputs = channel_inputs]
    /\ UNCHANGED <<jobs, job_id_counter, queue, redeliveries, wk, fin>>
    /\ UNCHANGED outside_orchestrator

\* The loop's `continue` on an empty or whitespace-only input.
StartRunSkip ==
    /\ sr.pc = "loop"
    /\ sr.i <= Len(sr.channel_inputs)
    /\ IsBlank(sr.channel_inputs[sr.i])
    /\ sr' = [sr EXCEPT !.i = sr.i + 1]
    /\ UNCHANGED <<runs, jobs, run_id_counter, job_id_counter, queue, redeliveries, wk, fin>>
    /\ UNCHANGED outside_orchestrator

\* `job_id = next(_job_id_counter)`; `STATE.create_job(Job(..., status="PENDING"))`
StartRunCreateJob ==
    /\ sr.pc = "loop"
    /\ sr.i <= Len(sr.channel_inputs)
    /\ ~IsBlank(sr.channel_inputs[sr.i])
    /\ LET job_id == job_id_counter
       IN  /\ job_id_counter' = job_id_counter + 1
           /\ jobs' = create_job(Job(job_id, sr.run_id, sr.channel_inputs[sr.i], "PENDING"))
           /\ sr' = [sr EXCEPT !.pc = "delay", !.job_id = job_id]
    /\ UNCHANGED <<runs, run_id_counter, queue, redeliveries, wk, fin>>
    /\ UNCHANGED outside_orchestrator

\* `process_channel_job.delay(job_id=job.id, run_id=run.id)`; `jobs_launched += 1`
StartRunDelay ==
    /\ sr.pc = "delay"
    /\ queue' = queue \cup { ProcessChannelJobMsg(sr.job_id, sr.run_id) }
    /\ sr' = [sr EXCEPT !.pc = "loop", !.i = sr.i + 1,
                        !.jobs_launched = sr.jobs_launched + 1]
    /\ UNCHANGED <<runs, jobs, run_id_counter, job_id_counter, redeliveries, wk, fin>>
    /\ UNCHANGED outside_orchestrator

\* `return {"run_id": run.id, "jobs_created": jobs_launched}`
StartRunReturn ==
    /\ sr.pc = "loop"
    /\ sr.i > Len(sr.channel_inputs)
    /\ sr' = [sr EXCEPT !.pc = "returned"]
    /\ UNCHANGED <<runs, jobs, run_id_counter, job_id_counter, queue, redeliveries, wk, fin>>
    /\ UNCHANGED outside_orchestrator

\* ------------------------------------------------------------- tasks.py
\* What resolve_youtube_channel_id can return (models.ResolveResult).
ChannelIds == {"UC1"}
ResolveResult(youtube_channel_id, needs_search_fallback, error) ==
    [youtube_channel_id |-> youtube_channel_id,
     needs_search_fallback |-> needs_search_fallback, error |-> error]

ResolveResults ==
    { ResolveResult(c, FALSE, None) : c \in ChannelIds }
      \cup { ResolveResult(None, TRUE, None),
             ResolveResult(None, FALSE, "not found") }

WkIdle == [pc |-> "idle", job_id |-> 0, run_id |-> 0]

\* The broker hands a message to an idle worker.  With acks_late a message
\* whose acknowledgement is lost stays in the broker and is delivered again.
Deliver(m, again) ==
    /\ m \in queue
    /\ again => redeliveries < MaxRedeliveries
    /\ queue' = IF again THEN queue ELSE queue \ {m}
    /\ redeliveries' = IF again THEN redeliveries + 1 ELSE redeliveries

\* process_channel_job_async up to the awaited resolver call.
WorkerStartJobs(m) ==
    IF get_job(m.job_id) = {} \/ get_run(m.run_id) = {}
    THEN jobs
    ELSE [jobs EXCEPT ![m.job_id].status = "PROCESSING"]

WorkerStart(w, m, again) ==
    /\ wk[w].pc = "idle"
    /\ Deliver(m, again)
    /\ jobs' = WorkerStartJobs(m)
    /\ wk' = IF get_job(m.job_id) = {} \/ get_run(m.run_id) = {}
             THEN wk
             ELSE [wk EXCEPT ![w] = [pc |-> "resolving", job_id |-> m.job_id,
                                     run_id |-> m.run_id]]
    /\ UNCHANGED <<runs, run_id_counter, job_id_counter, sr, fin>>
    /\ UNCHANGED outside_orchestrator

\* A transition that knows DONE and FAILED only.
TerminalJobWithoutSearch(job, result) ==
    IF result.youtube_channel_id # None
    THEN [job EXCEPT !.status = "DONE",
                     !.youtube_channel_id = result.youtube_channel_id]
    ELSE [job EXCEPT !.status = "FAILED", !.last_error = result.error]

\* The terminal transition chosen from the resolver's result.
TerminalJob(job, result) ==
    IF result.youtube_channel_id # None
    THEN [job EXCEPT !.status = "DONE",
                     !.youtube_channel_id = result.youtube_channel_id]
    ELSE IF result.needs_search_fallback
    THEN [job EXCEPT !.status = "NEEDS_SEARCH",
                     !.last_error = "Needs expensive search fallback"]
    ELSE [job EXCEPT !.status = "FAILED", !.last_error = result.error]

\* The resolver returned: the worker writes the terminal status and ends.
WorkerResolved(w, result) ==
    /\ wk[w].pc = "resolving"
    /\ jobs' = [jobs EXCEPT ![wk[w].job_id] = TerminalJob(@, result)]
    /\ wk' = [wk EXCEPT ![w] = WkIdle]
    /\ UNCHANGED <<runs, run_id_counter, job_id_counter, queue, redeliveries, sr, fin>>
    /\ UNCHANGED outside_orchestrator

\* asyncio.CancelledError at the await: the handler in the coroutine marks
\* the Job FAILED and re-raises; the task wrapper only reports the failure.
CancelledJob(job) ==
    [job EXCEPT !.status = "FAILED", !.last_error = "Task cancelled or TTL exceeded"]

WorkerCancelled(w) ==
    /\ wk[w].pc = "resolving"
    /\ jobs' = [jobs EXCEPT ![wk[w].job_id] = CancelledJob(@)]
    /\ wk' = [wk EXCEPT ![w] = WkIdle]
    /\ UNCHANGED <<runs, run_id_counter, job_id_counter, queue, redeliveries, sr, fin>>
    /\ UNCHANGED outside_orchestrator

\* SoftTimeLimitExceeded leaves the coroutine (it is no CancelledError); the
\* wrapper's handler calls update_state only and the Job is not written.
WorkerSoftTimeLimit(w) ==
    /\ wk[w].pc = "resolving"
    /\ wk' = [wk EXCEPT ![w] = WkIdle]
    /\ UNCHANGED <<runs, jobs, run_id_counter, job_id_counter, queue, redeliveries, sr, fin>>
    /\ UNCHANGED outside_orchestrator

\* A handler that logs the exception and leaves the Job as it is.
ExceptionJobUnwritten(job, message) == job

\* Any other exception (get_yt_client raising, for one): the wrapper's
\* `except Exception` marks the Job FAILED with str(e).
ExceptionJob(job, message) == [job EXCEPT !.status = "FAILED", !.last_error = message]

WorkerException(w) ==
    /\ wk[w].pc = "resolving"
    /\ jobs' = [jobs EXCEPT ![wk[w].job_id] = ExceptionJob(@, "exception")]
    /\ wk' = [wk EXCEPT ![w] = WkIdle]
    /\ UNCHANGED <<runs, run_id_counter, job_id_counter, queue, redeliveries, sr, fin>>
    /\ UNCHANGED outside_orchestrator

\* ------------------------------------------------- Orchestrator.finalize_run
FinIdle == [pc |-> "idle", run_id |-> 0, jobs |-> {}, summary |-> None, ret |-> FALSE]

FinReturned(f, ret, summary) ==
    [fin EXCEPT ![f] = [FinIdle EXCEPT !.pc = "returned", !.run_id = fin[f].run_id,
                                       !.ret = ret, !.summary = summary]]

\* `run = STATE.get_run(run_id)`; `if not run or run.status == "FINISHED": return False`
FinalizeRunBegin(f, run_id) ==
    /\ fin[f].pc \in {"idle", "returned"}
    /\ fin' = IF get_run(run_id) = {} \/ runs[run_id].status = "FINISHED"
              THEN [fin EXCEPT ![f] = [FinIdle EXCEPT !.pc = "returned", !.run_id = run_id]]
              ELSE [fin EXCEPT ![f] = [FinIdle EXCEPT !.pc = "run_loaded", !.run_id = run_id]]
    /\ UNCHANGED <<runs, jobs, run_id_counter, job_id_counter, queue, redeliveries, sr, wk>>
    /\ UNCHANGED outside_orchestrator

\* `jobs = STATE.get_jobs_for_run(run_id)`: the list of the Run's Job objects.
FinalizeRunLoadJobs(f) ==
    /\ fin[f].pc = "run_loaded"
    /\ fin' = [fin EXCEPT ![f].pc = "jobs_loaded", ![f].jobs = get_jobs_for_run(fin[f].run_id)]
    /\ UNCHANGED <<runs, jobs, run_id_counter, job_id_counter, queue, redeliveries, sr, wk>>
    /\ UNCHANGED outside_orchestrator

\* `finished_jobs = [j for j in jobs if j.status in ["DONE", "FAILED"]]`
FinishedStatuses == {"DONE", "FAILED"}
finished_jobs(js) == { j \in js : jobs[j].status \in FinishedStatuses }

\* `len(finished_jobs) == total_jobs and total_jobs > 0`
ReadyToFinish(js) ==
    /\ Cardinality(finished_jobs(js)) = Cardinality(js)
    /\ Cardinality(js) > 0

\* A finalizer that writes a status off the PENDING/RUNNING/FINISHED path.
FailedRun(run) == [run EXCEPT !.status = "FAILED"]

\* The Run as finalize_run leaves it: status (and updated_at) only.
FinishedRun(run) == [run EXCEPT !.status = "FINISHED"]

FinalizeRunDecide(f) ==
    /\ fin[f].pc = "jobs_loaded"
    /\ IF ReadyToFinish(fin[f].jobs)
       THEN /\ runs' = [runs EXCEPT ![fin[f].run_id] = FinishedRun(@)]
            /\ fin' = [fin EXCEPT ![f].pc = "finishing"]
       ELSE /\ runs' = runs
            /\ fin' = FinReturned(f, FALSE, None)
    /\ UNCHANGED <<jobs, run_id_counter, job_id_counter, queue, redeliveries, sr, wk>>
    /\ UNCHANGED outside_orchestrator

\* The summary dict: built, logged, and dropped when the call returns True.
Summary(js) ==
    LET total_jobs == Cardinality(js)
        done_count == Cardinality({ j \in js : jobs[j].status = "DONE" })
    IN  [total |-> total_jobs, done |-> done_count, failed |-> total_jobs - done_count]

FinalizeRunSummary(f) ==
    /\ fin[f].pc = "finishing"
    /\ fin' = FinReturned(f, TRUE, Summary(fin[f].jobs))
    /\ UNCHANGED <<runs, jobs, run_id_counter, job_id_counter, queue, redeliveries, sr, wk>>
    /\ UNCHANGED outside_orchestrator

\* ---------------------------------------- yt_client.YouTubeClientRotator
\* The rotator's methods hold self._lock for their whole body and await
\* nothing inside it: each call is one step.
AllKeys == <<"key1", "key2", "key3">>

\* The key lists a rotator is constructed with (a non-empty list).
KeyLists == { SubSeq(AllKeys, 1, n) : n \in 1..Len(AllKeys) }

\* `RuntimeError("No available API keys. All are in cooldown.")`
NoKeys == "NO_KEYS"

\* `key in self._cooldown_keys`
InCooldown(cooldown_keys, key) ==
    \E i \in 1..Len(cooldown_keys) : cooldown_keys[i].key = key

\* `key in self._api_keys`
InLive(live_keys, key) == \E i \in 1..Len(live_keys) : live_keys[i] = key

\* Reintegration with the expiry test dropped: every cooling key comes back.
ReintegrateAll(live_keys, cooldown_keys, t) ==
    [_api_keys |-> live_keys \o [i \in 1..Len(cooldown_keys) |-> cooldown_keys[i].key],
     _cooldown_keys |-> <<>>]

\* `for key, cooldown_end in list(self._cooldown_keys.items()): if now >= cooldown_end: ...`
Reintegrate(live_keys, cooldown_keys, t) ==
    LET expired == SelectSeq(cooldown_keys, LAMBDA e : t >= e.cooldown_end)
    IN  [_api_keys |-> live_keys \o [i \in 1..Len(expired) |-> expired[i].key],
         _cooldown_keys |-> SelectSeq(cooldown_keys, LAMBDA e : ~(t >= e.cooldown_end))]

\* deque.rotate(1): the last key moves to the front.
RotateRight(live_keys) ==
    <<live_keys[Len(live_keys)]>> \o SubSeq(live_keys, 1, Len(live_keys) - 1)

\* deque.popleft(): the first key leaves the pool.
RotateAway(live_keys) == Tail(live_keys)

\* `self._api_keys.rotate(-1)`: the first key moves to the end.
Rotate(live_keys) == Tail(live_keys) \o <<Head(live_keys)>>

\* `for _ in range(len(self._api_keys)): ...`, n iterations left.
RECURSIVE FindKey(_, _, _)
FindKey(live_keys, cooldown_keys, n) ==
    IF n = 0
    THEN [key |-> NoKeys, _api_keys |-> live_keys]
    ELSE IF ~InCooldown(cooldown_keys, Head(live_keys))
    THEN [key |-> Head(live_keys), _api_keys |-> Rotate(live_keys)]
    ELSE FindKey(Rotate(live_keys), cooldown_keys, n - 1)

\* _get_key at time t: the key returned (NoKeys for the RuntimeError) and
\* the deque and cooldown map it leaves.
_get_key(live_keys, cooldown_keys, t) ==
    LET r == Reintegrate(live_keys, cooldown_keys, t)
        f == FindKey(r._api_keys, r._cooldown_keys, Len(r._api_keys))
    IN  [key |-> f.key, _api_keys |-> f._api_keys, _cooldown_keys |-> r._cooldown_keys]

\* `self._cooldown_keys[key] = ...`: a key already there keeps its position.
SetCooldown(cooldown_keys, key, cooldown_end) ==
    IF InCooldown(cooldown_keys, key)
    THEN [i \in 1..Len(cooldown_keys) |->
             IF cooldown_keys[i].key = key
             THEN [key |-> key, cooldown_end |-> cooldown_end]
             ELSE cooldown_keys[i]]
    ELSE Append(cooldown_keys, [key |-> key, cooldown_end |-> cooldown_end])

\* deque.remove(key): drops the first occurrence.
RECURSIVE Remove(_, _)
Remove(live_keys, key) ==
    IF live_keys = <<>> THEN <<>>
    ELSE IF Head(live_keys) = key THEN Tail(live_keys)
    ELSE <<Head(live_keys)>> \o Remove(Tail(live_keys), key)

\* A cooldown that records the end time and leaves the key in the deque.
CooldownKeepLive(live_keys, cooldown_keys, key, t) ==
    [_api_keys |-> live_keys,
     _cooldown_keys |-> SetCooldown(cooldown_keys, key, t + CooldownTime)]

\* _cooldown_key(key) at time t.
_cooldown_key(live_keys, cooldown_keys, key, t) ==
    [_api_keys |-> IF InLive(live_keys, key) THEN Remove(live_keys, key) ELSE live_keys,
     _cooldown_keys |-> SetCooldown(cooldown_keys, key, t + CooldownTime)]

\* A direct `await client._get_key()`.
GetKeyCall ==
    /\ get_key_calls < MaxGetKeyCalls
    /\ LET g == _get_key(_api_keys, _cooldown_keys, now)
       IN  /\ _api_keys' = g._api_keys
           /\ _cooldown_keys' = g._cooldown_keys
           /\ last_key' = g.key
    /\ get_key_calls' = get_key_calls + 1
    /\ UNCHANGED <<api_keys, now, cooled, se>>
    /\ UNCHANGED outside_client

\* A direct `await client._cooldown_key(key)`.
CooldownKeyCall(key) ==
    /\ InLive(api_keys, key)
    /\ LET c == _cooldown_key(_api_keys, _cooldown_keys, key, now)
       IN  /\ _api_keys' = c._api_keys
           /\ _cooldown_keys' = c._cooldown_keys
    /\ cooled' = TRUE
    /\ UNCHANGED <<api_keys, now, get_key_calls, last_key, se>>
    /\ UNCHANGED outside_client

\* Time passes.
Tick ==
    /\ now < MaxTime
    /\ now' = now + 1
    /\ UNCHANGED <<api_keys, _api_keys, _cooldown_keys, get_key_calls, last_key, cooled, se>>
    /\ UNCHANGED outside_client

\* ------------------------------------------- YouTubeClientRotator.safe_execute
\* `max_retries: int = 5`
max_retries == 5

\* What the API call in the thread ends with: a payload, an HttpError (named
\* by the reason in its content), or an exception that is no HttpError.
HttpErrors ==
    {"quotaExceeded", "userRateLimitExceeded", "rateLimitExceeded", "backendError",
     "invalid_id"}
Responses == {"OK", "Exception"} \cup HttpErrors

status_code(e) ==
    CASE e = "quotaExceeded" -> 403
      [] e = "userRateLimitExceeded" -> 403
      [] e = "rateLimitExceeded" -> 429
      [] e = "backendError" -> 500
      [] e = "invalid_id" -> 400

\* A quota test that takes the 429 rate limit for a quota error as well.
is_quota_or_rate_limit_error(e) ==
    e \in {"quotaExceeded", "dailyLimitExceeded", "rateLimitExceeded"}

\* `"quotaExceeded" in str(e.content) or "dailyLimitExceeded" in str(e.content)`
is_quota_error(e) == e \in {"quotaExceeded", "dailyLimitExceeded"}

\* A classification that retries every HTTP error status.
is_error_status(e) == status_code(e) >= 400

\* `e.status_code == 429 or e.status_code >= 500`
is_transient_error(e) == status_code(e) = 429 \/ status_code(e) >= 500

SeIdle == [pc |-> "idle", attempt |-> 0, api_key |-> None, last_exception |-> None,
           raised |-> None, transport |-> 0, sleeps |-> 0, wait_time |-> 0,
           throttles |-> 0]

\* The call ends by raising e; only what the caller observes is kept.
Raise(s, e) == [s EXCEPT !.pc = "raised", !.raised = e, !.api_key = None,
                         !.last_exception = None]

\* A caller that takes the missing key for a failure to retry after a sleep.
SleepOnNoKeys(s) ==
    [s EXCEPT !.pc = "sleep", !.sleeps = @ + 1, !.wait_time = 2 ^ s.attempt]

\* `api_key = await self._get_key()` stands outside the try: the
\* RuntimeError leaves safe_execute.
OnNoKeys(s) == Raise(s, NoKeys)

\* The top of `for attempt in range(max_retries)` for the caller state s on
\* the pool (live_keys, cooldown_keys): the loop is over and the last
\* exception is raised, or a key is acquired and the API call starts.
LoopTop(c, s, live_keys, cooldown_keys) ==
    IF s.attempt >= max_retries
    THEN /\ se' = [se EXCEPT ![c] =
                      Raise(s, IF s.last_exception # None THEN s.last_exception
                               ELSE "API call failed after all retries")]
         /\ _api_keys' = live_keys
         /\ _cooldown_keys' = cooldown_keys
    ELSE LET g == _get_key(live_keys, cooldown_keys, now)
         IN  /\ _api_keys' = g._api_keys
             /\ _cooldown_keys' = g._cooldown_keys
             /\ se' = [se EXCEPT ![c] =
                          IF g.key = NoKeys
                          THEN OnNoKeys(s)
                          ELSE [s EXCEPT !.pc = "to_thread", !.api_key = g.key,
                                         !.transport = @ + 1]]

\* safe_execute is called: `await throttle(user_id=owner_id)` is in flight.
SafeExecuteBegin(c) ==
    /\ se[c].pc \in {"idle", "returned", "raised"}
    /\ se' = [se EXCEPT ![c] = [SeIdle EXCEPT !.pc = "throttle"]]
    /\ UNCHANGED <<api_keys, _api_keys, _cooldown_keys, now, get_key_calls, last_key, cooled>>
    /\ UNCHANGED outside_client

\* throttle returned: the loop starts with attempt 0.
SafeExecuteThrottled(c) ==
    /\ se[c].pc = "throttle"
    /\ LoopTop(c, [se[c] EXCEPT !.throttles = @ + 1], _api_keys, _cooldown_keys)
    /\ UNCHANGED <<api_keys, now, get_key_calls, last_key, cooled>>
    /\ UNCHANGED outside_client

\* asyncio.to_thread ends with response: return, or one of the handlers.
SafeExecuteResponse(c, response) ==
    /\ se[c].pc = "to_thread"
    /\ IF response = "OK"
       THEN /\ se' = [se EXCEPT ![c].pc = "returned", ![c].api_key = None,
                                ![c].last_exception = None]
            /\ UNCHANGED <<_api_keys, _cooldown_keys>>
       ELSE IF response \in HttpErrors /\ is_quota_error(response)
       THEN LET k == _cooldown_key(_api_keys, _cooldown_keys, se[c].api_key, now)
            IN  LoopTop(c, [se[c] EXCEPT !.last_exception = response, !.attempt = @ + 1],
                        k._api_keys, k._cooldown_keys)
       ELSE IF response \in HttpErrors /\ is_transient_error(response)
       THEN /\ se' = [se EXCEPT ![c].last_exception = response, ![c].pc = "sleep",
                                ![c].sleeps = @ + 1, ![c].wait_time = 2 ^ se[c].attempt]
            /\ UNCHANGED <<_api_keys, _cooldown_keys>>
       ELSE /\ se' = [se EXCEPT ![c] = Raise([@ EXCEPT !.last_exception = response], response)]
            /\ UNCHANGED <<_api_keys, _cooldown_keys>>
    /\ UNCHANGED <<api_keys, now, get_key_calls, last_key, cooled>>
    /\ UNCHANGED outside_client

\* A retry after the sleep that leaves the attempt counter where it was.
SafeExecuteWakeSameAttempt(c) ==
    /\ se[c].pc = "sleep"
    /\ LoopTop(c, [se[c] EXCEPT !.wait_time = 0], _api_keys, _cooldown_keys)
    /\ UNCHANGED <<api_keys, now, get_key_calls, last_key, cooled>>
    /\ UNCHANGED outside_client

\* `await asyncio.sleep(wait_time)` is over: `continue`.
SafeExecuteWake(c) ==
    /\ se[c].pc = "sleep"
    /\ LoopTop(c, [se[c] EXCEPT !.attempt = @ + 1, !.wait_time = 0],
               _api_keys, _cooldown_keys)
    /\ UNCHANGED <<api_keys, now, get_key_calls, last_key, cooled>>
    /\ UNCHANGED outside_client

\* YouTubeClientRotator(api_keys=key_list), no call made yet.
ClientInit(key_list) ==
    /\ api_keys = key_list
    /\ _api_keys = key_list
    /\ _cooldown_keys = <<>>
    /\ now = 0
    /\ get_key_calls = 0
    /\ last_key = None
    /\ cooled = FALSE
    /\ se = [c \in Callers |-> SeIdle]

\* The orchestration with no Run, no Job and nothing in the broker.
OrchestratorInit ==
    /\ runs = <<>>
    /\ jobs = <<>>
    /\ run_id_counter = 1
    /\ job_id_counter = 1
    /\ queue = {}
    /\ redeliveries = 0
    /\ sr = SrIdle
    /\ wk = [w \in Workers |-> WkIdle]
    /\ fin = [f \in Finalizers |-> FinIdle]

\* ------------------- yt/key_rotator.py, yt/safe_execute.py, yt/client.py
\* The synchronous client: one thread, KeyRotator over the first total_keys
\* keys of AllKeys.  RateLimiter.wait() only delays the request that follows
\* it and is part of the step that makes the request.
MAX_RETRIES == 5
INITIAL_BACKOFF == 1
BACKOFF_FACTOR == 2

\* `return self.api_keys[self._current_index]`
get_key(index, n) == IF index < n THEN AllKeys[index + 1] ELSE "IndexError"

\* A rotation that goes round to the first key and never raises.
rotate_around(index, n) == [_current_index |-> (index + 1) % n, raised |-> FALSE]

\* KeyRotator.rotate(): the index it leaves and whether it raised
\* NoAvailableKeysError.
rotate(index, n) == [_current_index |-> index + 1, raised |-> index + 1 >= n]

\* `e.resp.status == 403 and any(err.get("reason") in [...])`
client_is_quota_error(e) ==
    /\ status_code(e) = 403
    /\ e \in {"quotaExceeded", "dailyLimitExceeded", "userRateLimitExceeded"}

\* `status_code == 429 or status_code >= 500`
is_retriable(e) == status_code(e) = 429 \/ status_code(e) >= 500

XrIdle == [pc |-> "idle", retries |-> 0, backoff |-> 0, calls |-> 0, wait |-> 0,
           requests |-> 0, builds |-> 0, sleeps |-> 0, result |-> None]

\* _execute_request returns result (None is Python's None).
Return(x, result) ==
    [x EXCEPT !.pc = "returned", !.result = result, !.retries = 0, !.backoff = 0,
              !.calls = 0]

\* One pass of `while True` up to the first request_func() of safe_execute:
\* limiter.wait(), the request is built, `retries = 0`,
\* `backoff = INITIAL_BACKOFF`, request.execute() is called.
SafeExecuteStart(x) ==
    [x EXCEPT !.pc = "request", !.retries = 0, !.backoff = INITIAL_BACKOFF,
              !.calls = 1, !.requests = @ + 1]

\* client.channels_list(...) and the like call _execute_request.
ExecuteRequestBegin ==
    /\ xr.pc \in {"idle", "returned"}
    /\ execute_requests < MaxExecuteRequests
    /\ execute_requests' = execute_requests + 1
    /\ xr' = SafeExecuteStart(XrIdle)
    /\ UNCHANGED <<total_keys, _current_index, service_key>>
    /\ UNCHANGED outside_sync

\* request.execute() ends with response: safe_execute returns it, re-raises
\* a quota error to the client (which rotates the key), sleeps before a retry,
\* or raises; the client turns every error but a quota error into None.
RequestResponse(response) ==
    /\ xr.pc = "request"
    /\ IF response = "OK"
       THEN /\ xr' = Return(xr, "OK")
            /\ UNCHANGED <<_current_index, service_key>>
       ELSE IF response \in HttpErrors /\ client_is_quota_error(response)
       THEN LET r == rotate(_current_index, total_keys)
            IN  /\ _current_index' = r._current_index
                /\ IF r.raised
                   THEN /\ xr' = Return(xr, None)
                        /\ service_key' = service_key
                   ELSE /\ service_key' = get_key(r._current_index, total_keys)
                        /\ xr' = SafeExecuteStart([xr EXCEPT !.builds = @ + 1])
       ELSE IF response \in HttpErrors /\ is_retriable(response)
       THEN /\ xr' = IF xr.retries + 1 >= MAX_RETRIES
                     THEN Return(xr, None)
                     ELSE [xr EXCEPT !.retries = @ + 1, !.pc = "sleep",
                                     !.wait = xr.backoff, !.sleeps = @ + 1]
            /\ UNCHANGED <<_current_index, service_key>>
       ELSE /\ xr' = Return(xr, None)
            /\ UNCHANGED <<_current_index, service_key>>
    /\ UNCHANGED <<total_keys, execute_requests>>
    /\ UNCHANGED outside_sync

\* `time.sleep(backoff)` is over: `backoff *= BACKOFF_FACTOR`; `continue`.
RequestRetry ==
    /\ xr.pc = "sleep"
    /\ xr' = [xr EXCEPT !.pc = "request", !.backoff = @ * BACKOFF_FACTOR, !.wait = 0,
                        !.calls = @ + 1, !.requests = @ + 1]
    /\ UNCHANGED <<total_keys, _current_index, service_key, execute_requests>>
    /\ UNCHANGED outside_sync

\* YouTubeClient() with YT_API_KEYS holding n keys.
SyncClientInit(n) ==
    /\ total_keys = n
    /\ _current_index = 0
    /\ service_key = get_key(0, n)
    /\ execute_requests = 0
    /\ xr = XrIdle

\* ------------------------------------------------------ limiter.py throttle
\* `max_requests: int = 5, period: int = 1`
DefaultMaxRequests == 5
DefaultPeriod == 1

\* A member of the sorted set.  time.time() gives two calls distinct floats,
\* so their members str(now) differ; the clock here is coarser, and a member
\* carries the number of its call as well as its score.
Member(score, id) == [score |-> score, id |-> id]

\* `redis.zremrangebyscore(key, min, max)`
zremrangebyscore(members, min, max) ==
    { m \in members : ~(min <= m.score /\ m.score <= max) }

\* `redis.zcard(key)`
zcard(members) == Cardinality(members)

\* `redis.zadd(key, {str(now): now})`
zadd(members, score, id) == members \cup { Member(score, id) }

\* `redis.zrange(key, 0, 0, withscores=True)[0][1]`: the lowest score.
oldest_timestamp(members) ==
    CHOOSE t \in { m.score : m \in members } : \A m \in members : t <= m.score

ThIdle == [pc |-> "idle", now |-> 0, current_requests |-> 0, wake |-> 0,
           slept |-> FALSE, id |-> 0]

\* throttle returned: its locals are gone.
ThReturned(t) == [ThIdle EXCEPT !.pc = "returned", !.slept = t.slept, !.id = t.id]

\* `now = time.time()`, up to the first await.
ThrottleBegin(c) ==
    /\ th[c].pc \in {"idle", "returned", "cancelled"}
    /\ throttle_calls < MaxThrottleCalls
    /\ throttle_calls' = throttle_calls + 1
    /\ th' = [th EXCEPT ![c] = [ThIdle EXCEPT !.pc = "zremrangebyscore",
                                              !.now = now,
                                              !.id = throttle_calls + 1]]
    /\ UNCHANGED <<zset, max_requests, period, unslept>>
    /\ UNCHANGED outside_limiter

\* `await redis.zremrangebyscore(key, 0, now - period)`
ThrottleZremrangebyscore(c) ==
    /\ th[c].pc = "zremrangebyscore"
    /\ zset' = zremrangebyscore(zset, 0, th[c].now - period)
    /\ th' = [th EXCEPT ![c].pc = "zcard"]
    /\ UNCHANGED <<max_requests, period, throttle_calls, unslept>>
    /\ UNCHANGED outside_limiter

\* `current_requests = await redis.zcard(key)` and the test on it.
ThrottleZcard(c) ==
    /\ th[c].pc = "zcard"
    /\ th' = [th EXCEPT ![c].current_requests = zcard(zset),
                        ![c].pc = IF zcard(zset) < max_requests
                                  THEN "zadd" ELSE "zrange"]
    /\ UNCHANGED <<zset, max_requests, period, throttle_calls, unslept>>
    /\ UNCHANGED outside_limiter

\* `await redis.zadd(key, {str(now): now})`; `return` (also the safeguard of
\* lines 33-34): the call returns without having slept.
ThrottleZadd(c) ==
    /\ th[c].pc = "zadd"
    /\ zset' = zadd(zset, th[c].now, th[c].id)
    /\ unslept' = [unslept EXCEPT ![now] = @ + 1]
    /\ th' = [th EXCEPT ![c] = ThReturned(th[c])]
    /\ UNCHANGED <<max_requests, period, throttle_calls>>
    /\ UNCHANGED outside_limiter

\* `await redis.zrange(...)`, `wait_time = (oldest_timestamp + period) - now`
\* and, `if wait_time > 0`, the start of `asyncio.sleep(wait_time)`.
ThrottleZrange(c) ==
    /\ th[c].pc = "zrange"
    /\ IF zset = {}
       THEN th' = [th EXCEPT ![c].pc = "zadd"]
       ELSE LET wait_time == (oldest_timestamp(zset) + period) - th[c].now
            IN  th' = IF wait_time > 0
                      THEN [th EXCEPT ![c].pc = "sleep", ![c].slept = TRUE,
                                      ![c].wake = now + wait_time]
                      ELSE [th EXCEPT ![c].pc = "zadd_after"]
    /\ UNCHANGED <<zset, max_requests, period, throttle_calls, unslept>>
    /\ UNCHANGED outside_limiter

\* asyncio.sleep(wait_time) is over.
ThrottleWake(c) ==
    /\ th[c].pc = "sleep"
    /\ now >= th[c].wake
    /\ th' = [th EXCEPT ![c].pc = "zadd_after"]
    /\ UNCHANGED <<zset, max_requests, period, throttle_calls, unslept>>
    /\ UNCHANGED outside_limiter

\* `await redis.zadd(key, {str(time.time()): time.time()})`; `aclose()`.
ThrottleZaddAfter(c) ==
    /\ th[c].pc = "zadd_after"
    /\ zset' = zadd(zset, now, th[c].id)
    /\ unslept' = IF th[c].slept THEN unslept ELSE [unslept EXCEPT ![now] = @ + 1]
    /\ th' = [th EXCEPT ![c] = ThReturned(th[c])]
    /\ UNCHANGED <<max_requests, period, throttle_calls>>
    /\ UNCHANGED outside_limiter

\* The task is cancelled in a `finally` that records the call all the same.
ThrottleCancelRecording(c) ==
    /\ th[c].pc = "sleep"
    /\ zset' = zadd(zset, now, th[c].id)
    /\ th' = [th EXCEPT ![c] = [ThIdle EXCEPT !.pc = "cancelled", !.slept = TRUE,
                                              !.id = th[c].id]]
    /\ UNCHANGED <<max_requests, period, throttle_calls, unslept>>
    /\ UNCHANGED outside_limiter

\* The task is cancelled during `await asyncio.sleep(wait_time)`:
\* CancelledError leaves throttle at line 41, nothing catches it.
ThrottleCancel(c) ==
    /\ th[c].pc = "sleep"
    /\ th' = [th EXCEPT ![c] = [ThIdle EXCEPT !.pc = "cancelled", !.slept = TRUE,
                                              !.id = th[c].id]]
    /\ UNCHANGED <<zset, max_requests, period, throttle_calls, unslept>>
    /\ UNCHANGED outside_limiter

\* An empty sorted set; every caller passes m and p.
LimiterInit(m, p) ==
    /\ zset = {}
    /\ max_requests = m
    /\ period = p
    /\ throttle_calls = 0
    /\ th = [c \in Callers |-> ThIdle]
    /\ unslept = [t \in 0..MaxTime |-> 0]

\* ------------------------------------------- resolver_v2.py and resolver.py
\* An input string is what the resolver's patterns find in it.
\* resolve_youtube_channel_id (resolver_v2.py):
\*   channel_id : RE_CHANNEL_ID.search(input_str) matches
\*   handle     : RE_HANDLE.search(input_str) matches ("@name" anywhere)
\*   url        : what urlparse and the path give
UrlKinds ==
    { "not_youtube",   \* netloc is not youtube.com, or urlparse raised
      "empty",         \* no path parts
      "c",             \* /c/Name
      "user",          \* /user/Name
      "at_handle",     \* first part starts with @ and RE_HANDLE matches it
      "at_invalid",    \* first part starts with @ and RE_HANDLE does not match
      "bare",          \* one part, not `channel`, RE_HANDLE matches "@" + part
      "bare_invalid",  \* one part, not `channel`, RE_HANDLE does not match
      "other" }        \* anything else

InputsV2 == [channel_id : BOOLEAN, handle : BOOLEAN, url : UrlKinds]

\* resolve_youtube_channel (resolver.py): which of RE_CHANNEL_ID, RE_USER,
\* RE_HANDLE, RE_CUSTOM_URL and RE_RAW_HANDLE match, and the sanity check
\* `len(input_str) > 70 or " " in input_str`.
InputsV1 ==
    [channel_id : BOOLEAN, user : BOOLEAN, handle : BOOLEAN, custom_url : BOOLEAN,
     raw_handle : BOOLEAN, long_or_space : BOOLEAN]

\* What youtube_client.safe_execute gives the resolver.
ApiResponses == {"items", "no_items", "Exception"}

\* resolver.ResolveResult
ResolveResultV1(status, youtube_channel_id, input_type) ==
    [status |-> status, youtube_channel_id |-> youtube_channel_id,
     input_type |-> input_type]

\* Lines 36-65 of resolver_v2.py: "return" when the URL rules return
\* needs_search_fallback, else whether handle_match is set.
handle_match(input) ==
    IF input.handle THEN "match"
    ELSE CASE input.url \in {"empty", "c", "user"} -> "return"
           [] input.url \in {"at_handle", "bare"} -> "match"
           [] OTHER -> "no_match"

RvIdle == [pc |-> "idle", resolver |-> "none", input |-> [channel_id |-> FALSE],
           api_calls |-> 0, result |-> ResolveResult(None, FALSE, None)]

RvReturn(r, result) == [r EXCEPT !.pc = "returned", !.result = result]

\* resolve_youtube_channel_id(input_str, ...) up to its return or up to
\* `await youtube_client.safe_execute(...)`.
ResolveYoutubeChannelIdBegin(input) ==
    /\ rv.pc \in {"idle", "returned"}
    /\ LET r == [RvIdle EXCEPT !.resolver = "resolver_v2", !.input = input]
       IN  rv' = IF input.channel_id
                 THEN RvReturn(r, ResolveResult("UC1", FALSE, None))
                 ELSE IF handle_match(input) = "match"
                 THEN [r EXCEPT !.pc = "safe_execute", !.api_calls = 1]
                 ELSE RvReturn(r, ResolveResult(None, TRUE, None))
    /\ UNCHANGED outside_resolver

\* A handle that is not found falls through to a second call of the facade.
ResolveYoutubeChannelIdFallThrough(response) ==
    /\ rv.pc = "safe_execute"
    /\ rv' = CASE response = "items" ->
                    RvReturn(rv, ResolveResult("UC1", FALSE, None))
               [] response = "no_items" ->
                    [rv EXCEPT !.api_calls = @ + 1]
               [] OTHER ->
                    RvReturn(rv, ResolveResult(None, FALSE, "Exception"))
    /\ UNCHANGED outside_resolver

\* safe_execute ends: lines 76-87.
ResolveYoutubeChannelIdResponse(response) ==
    /\ rv.pc = "safe_execute"
    /\ rv' = CASE response = "items" ->
                    RvReturn(rv, ResolveResult("UC1", FALSE, None))
               [] response = "no_items" ->
                    RvReturn(rv, ResolveResult(None, FALSE, "not found"))
               [] OTHER ->
                    RvReturn(rv, ResolveResult(None, FALSE, "Exception"))
    /\ UNCHANGED outside_resolver

\* The rule of resolve_youtube_channel that input falls under, in the order
\* of the code.
Rule(input) ==
    IF input.channel_id THEN "CHANNEL_ID"
    ELSE IF input.user THEN "USER_URL"
    ELSE IF input.handle THEN "HANDLE"
    ELSE IF input.custom_url THEN "CUSTOM_URL"
    ELSE IF input.raw_handle /\ ~input.long_or_space THEN "RAW_HANDLE"
    ELSE "UNKNOWN"

\* resolve_youtube_channel(input_str, client) up to its return or up to the
\* client call of its rule.
ResolveYoutubeChannelBegin(input) ==
    /\ rv.pc \in {"idle", "returned"}
    /\ LET r == [RvIdle EXCEPT !.resolver = "resolver", !.input = input]
           rule == Rule(input)
       IN  rv' = CASE rule = "CHANNEL_ID" ->
                        RvReturn(r, ResolveResultV1("RESOLVED", "UC1", rule))
                   [] rule = "USER_URL" ->
                        [r EXCEPT !.pc = "get_channel_id_for_user", !.api_calls = 1]
                   [] rule \in {"HANDLE", "RAW_HANDLE"} ->
                        [r EXCEPT !.pc = "get_channel_id_for_handle", !.api_calls = 1]
                   [] rule = "CUSTOM_URL" ->
                        RvReturn(r, ResolveResultV1("NEEDS_SEARCH_FALLBACK", None, rule))
                   [] OTHER ->
                        RvReturn(r, ResolveResultV1("FAILED", None, rule))
    /\ UNCHANGED outside_resolver

\* client.get_channel_id_for_user / get_channel_id_for_handle returns
\* channel_id (None after any error or an empty result).
ResolveYoutubeChannelResponse(channel_id) ==
    /\ rv.pc \in {"get_channel_id_for_user", "get_channel_id_for_handle"}
    /\ rv' = IF channel_id # None
             THEN RvReturn(rv, ResolveResultV1("RESOLVED", channel_id, Rule(rv.input)))
             ELSE RvReturn(rv, ResolveResultV1("FAILED", None, Rule(rv.input)))
    /\ UNCHANGED outside_resolver

ResolverInit == rv = RvIdle

\* ------------------------------------------- the State store called directly
\* Runs and Jobs a caller may hand to the store.
StoreIds == 1..MaxStoreId
StoreRuns == { Run(id, 1, status) : id \in StoreIds, status \in {"RUNNING", "DONE"} }
StoreJobs ==
    { Job(id, run_id, <<"a">>, status) :
        id \in StoreIds, run_id \in StoreIds, status \in {"PENDING", "DONE"} }

\* `self._jobs[job.id] = job`
update_job(job) == [jobs EXCEPT ![job.id] = job]

\* `raise ValueError(...)` of create_run, create_job and update_job.
AlreadyExists == "ValueError: already exists"
NotFound == "ValueError: not found"

\* STATE.create_run(run)
CreateRun(run) ==
    /\ IF run.id \in DOMAIN runs
       THEN raised' = AlreadyExists /\ runs' = runs
       ELSE raised' = None /\ runs' = create_run(run)
    /\ UNCHANGED jobs
    /\ UNCHANGED outside_store

\* create_job as a bare dictionary assignment.
CreateJobOverwriting(job) ==
    /\ raised' = None
    /\ jobs' = (job.id :> job) @@ jobs
    /\ UNCHANGED runs
    /\ UNCHANGED outside_store

\* STATE.create_job(job)
CreateJob(job) ==
    /\ IF job.id \in DOMAIN jobs
       THEN raised' = AlreadyExists /\ jobs' = jobs
       ELSE raised' = None /\ jobs' = create_job(job)
    /\ UNCHANGED runs
    /\ UNCHANGED outside_store

\* STATE.update_job(job)
UpdateJob(job) ==
    /\ IF job.id \notin DOMAIN jobs
       THEN raised' = NotFound /\ jobs' = jobs
       ELSE raised' = None /\ jobs' = update_job(job)
    /\ UNCHANGED runs
    /\ UNCHANGED outside_store

StoreInit == raised = None

Init ==
    /\ OrchestratorInit
    /\ ClientInit(AllKeys)
    /\ SyncClientInit(Len(AllKeys))
    /\ LimiterInit(DefaultMaxRequests, DefaultPeriod)
    /\ ResolverInit
    /\ StoreInit

Next ==
    \/ \E o \in OwnerIds, ins \in InputLists : StartRunBegin(o, ins)
    \/ StartRunSkip
    \/ StartRunCreateJob
    \/ StartRunDelay
    \/ StartRunReturn
    \/ \E w \in Workers, m \in Messages, again \in BOOLEAN : WorkerStart(w, m, again)
    \/ \E w \in Workers, result \in ResolveResults : WorkerResolved(w, result)
    \/ \E w \in Workers : WorkerCancelled(w)
    \/ \E w \in Workers : WorkerSoftTimeLimit(w)
    \/ \E w \in Workers : WorkerException(w)
    \/ \E f \in Finalizers, run_id \in 1..MaxRuns : FinalizeRunBegin(f, run_id)
    \/ \E f \in Finalizers : FinalizeRunLoadJobs(f)
    \/ \E f \in Finalizers : FinalizeRunDecide(f)
    \/ \E f \in Finalizers : FinalizeRunSummary(f)

Spec == Init /\ [][Next]_vars

\* ------------------------------------------------ the rotator called directly
\* Concurrent callers of _get_key and _cooldown_key: the lock makes every
\* interleaving a sequence of whole calls.
InitRotator ==
    /\ OrchestratorInit
    /\ \E key_list \in KeyLists : ClientInit(key_list)
    /\ SyncClientInit(Len(AllKeys))
    /\ LimiterInit(DefaultMaxRequests, DefaultPeriod)
    /\ ResolverInit
    /\ StoreInit

NextRotator ==
    \/ GetKeyCall
    \/ \E key \in { AllKeys[i] : i \in 1..Len(AllKeys) } : CooldownKeyCall(key)
    \/ Tick

SpecRotator == InitRotator /\ [][NextRotator]_vars

\* --------------------------------------------- concurrent safe_execute calls
NextSafeExecute ==
    \/ \E c \in Callers : SafeExecuteBegin(c)
    \/ \E c \in Callers : SafeExecuteThrottled(c)
    \/ \E c \in Callers, response \in Responses : SafeExecuteResponse(c, response)
    \/ \E c \in Callers : SafeExecuteWake(c)
    \/ Tick

\* Rotators of one key and of two.
InitSafeExecute ==
    /\ OrchestratorInit
    /\ \E key_list \in { l \in KeyLists : Len(l) <= 2 } : ClientInit(key_list)
    /\ SyncClientInit(Len(AllKeys))
    /\ LimiterInit(DefaultMaxRequests, DefaultPeriod)
    /\ ResolverInit
    /\ StoreInit

SpecSafeExecute == InitSafeExecute /\ [][NextSafeExecute]_vars

\* One caller at a time.  throttle returns, the API call in the thread ends
\* and a sleep ends: a safe_execute call that has started is not suspended
\* for ever.
NextSafeExecuteAlone ==
    \/ SafeExecuteBegin(1)
    \/ SafeExecuteThrottled(1)
    \/ \E response \in Responses : SafeExecuteResponse(1, response)
    \/ SafeExecuteWake(1)
    \/ Tick

SpecSafeExecuteFair ==
    /\ InitSafeExecute
    /\ [][NextSafeExecuteAlone]_vars
    /\ WF_vars(SafeExecuteThrottled(1))
    /\ WF_vars(\E response \in Responses : SafeExecuteResponse(1, response))
    /\ WF_vars(SafeExecuteWake(1))

\* ------------------------------------------------- the synchronous client
InitSync ==
    /\ OrchestratorInit
    /\ ClientInit(AllKeys)
    /\ \E n \in 1..Len(AllKeys) : SyncClientInit(n)
    /\ LimiterInit(DefaultMaxRequests, DefaultPeriod)
    /\ ResolverInit
    /\ StoreInit

NextSync ==
    \/ ExecuteRequestBegin
    \/ \E response \in Responses : RequestResponse(response)
    \/ RequestRetry

SpecSync == InitSync /\ [][NextSync]_vars

\* request.execute() ends and time.sleep(backoff) ends.
SpecSyncFair ==
    /\ SpecSync
    /\ WF_vars(\E response \in Responses : RequestResponse(response))
    /\ WF_vars(RequestRetry)

\* ------------------------------------------- concurrent throttle callers
\* Every await of throttle hands control to the event loop (or to another
\* worker process sharing the Redis key), so callers interleave between them.
InitThrottle ==
    /\ OrchestratorInit
    /\ ClientInit(AllKeys)
    /\ SyncClientInit(Len(AllKeys))
    /\ \E m \in 1..MaxMaxRequests, p \in 1..MaxPeriod : LimiterInit(m, p)
    /\ ResolverInit
    /\ StoreInit

NextThrottle ==
    \/ \E c \in Callers : ThrottleBegin(c)
    \/ \E c \in Callers : ThrottleZremrangebyscore(c)
    \/ \E c \in Callers : ThrottleZcard(c)
    \/ \E c \in Callers : ThrottleZadd(c)
    \/ \E c \in Callers : ThrottleZrange(c)
    \/ \E c \in Callers : ThrottleWake(c)
    \/ \E c \in Callers : ThrottleZaddAfter(c)
    \/ \E c \in Callers : ThrottleCancel(c)
    \/ Tick

SpecThrottle == InitThrottle /\ [][NextThrottle]_vars

\* ------------------------------------------------------ the two resolvers
InitResolver == Init

NextResolver ==
    \/ \E input \in InputsV2 : ResolveYoutubeChannelIdBegin(input)
    \/ \E response \in ApiResponses : ResolveYoutubeChannelIdResponse(response)
    \/ \E input \in InputsV1 : ResolveYoutubeChannelBegin(input)
    \/ \E channel_id \in ChannelIds \cup {None} : ResolveYoutubeChannelResponse(channel_id)

SpecResolver == InitResolver /\ [][NextResolver]_vars

\* ----------------------------------------------- Orchestrator.get_run_status
\* `status_counts.get(status, 0)` after the loop over the Run's Jobs.
status_count(run_id, status) ==
    Cardinality({ j \in get_jobs_for_run(run_id) : jobs[j].status = status })

\* round(100 * n / total), halves to the even neighbour, as `:.0%` rounds.
Percent(n, total) ==
    LET q == (100 * n) \div total
        r == (100 * n) % total
    IN  IF 2 * r > total THEN q + 1
        ELSE IF 2 * r = total THEN q + (q % 2)
        ELSE q

\* The "progress" entry of the dictionary get_run_status returns: the
\* string f"{progress:.0%}", here its type and the digits before the "%".
progress(run_id) ==
    LET total_jobs == Cardinality(get_jobs_for_run(run_id))
        done_count == status_count(run_id, "DONE")
        failed_count == status_count(run_id, "FAILED")
    IN  [type |-> "str",
         percent |-> IF total_jobs > 0
                     THEN Percent(done_count + failed_count, total_jobs)
                     ELSE 0]

\* ------------------------------------------------- callers of the State store
\* Every method holds the store's lock from its first line to its last, so
\* concurrent calls are a sequence of whole calls.
InitStore == Init

NextStore ==
    \/ \E run \in StoreRuns : CreateRun(run)
    \/ \E job \in StoreJobs : CreateJob(job)
    \/ \E job \in StoreJobs : UpdateJob(job)

SpecStore == InitStore /\ [][NextStore]_vars

\* ------------------------------------------------- sequential finalize_run
\* One finalize_run(run_id) call run without interleaving on the Runs rs (the
\* call never writes a Job): its return value and the Runs it leaves.
finalize_run(rs, run_id) ==
    IF run_id \notin DOMAIN rs \/ rs[run_id].status = "FINISHED"
    THEN [ret |-> FALSE, runs |-> rs]
    ELSE IF ReadyToFinish(get_jobs_for_run(run_id))
    THEN [ret |-> TRUE, runs |-> [rs EXCEPT ![run_id] = FinishedRun(@)]]
    ELSE [ret |-> FALSE, runs |-> rs]

\* ------------------------------------------------------------------ claims
TerminalStatuses == {"DONE", "FAILED", "NEEDS_SEARCH"}

AllJobsTerminal(run_id) ==
    \A j \in get_jobs_for_run(run_id) : jobs[j].status \in TerminalStatuses

FinalizeRunTaskMsg(run_id) == [task |-> "finalize_run_task", run_id |-> run_id]

\* C1: in every reachable state, a Run in FINISHED has every one of its Jobs
\* in DONE, FAILED or NEEDS_SEARCH.
C1_FinishedRunHasTerminalJobs ==
    \A r \in DOMAIN runs : runs[r].status = "FINISHED" => AllJobsTerminal(r)

\* C2: every step that brings a Job to a terminal status leaves a finalizer
\* invocation for the Job's run_id enqueued (the step on which the Run's
\* convergence to FINISHED rests).
C2_TerminalTransitionEnqueuesFinalizer ==
    [][\A j \in DOMAIN jobs :
          (jobs[j].status \notin TerminalStatuses /\ jobs'[j].status \in TerminalStatuses)
              => FinalizeRunTaskMsg(jobs[j].run_id) \in queue']_vars

JobStatusStep(old, new) ==
    \/ new = old
    \/ old = "PENDING" /\ new = "PROCESSING"
    \/ old = "PROCESSING" /\ new \in TerminalStatuses

\* C3: a Job's status changes only along PENDING -> PROCESSING -> {DONE,
\* FAILED, NEEDS_SEARCH}; a terminal status never changes again.
C3_JobStatusMonotone ==
    [][\A j \in DOMAIN jobs : JobStatusStep(jobs[j].status, jobs'[j].status)]_vars

\* C4: a process_channel_job execution that starts on a Job already in DONE,
\* FAILED or NEEDS_SEARCH calls no resolver and leaves the Job record as it was.
C4_TerminalRedeliveryIsNoOp ==
    [][\A w \in Workers, m \in queue, again \in BOOLEAN :
          (/\ WorkerStart(w, m, again)
           /\ m.job_id \in DOMAIN jobs
           /\ jobs[m.job_id].status \in TerminalStatuses)
              => (jobs'[m.job_id] = jobs[m.job_id] /\ wk'[w].pc # "resolving")]_vars

\* C5: in every reachable state a Run has finished_at and summary set if and
\* only if its status is FINISHED.
C5_FinishedAtAndSummaryIffFinished ==
    \A r \in DOMAIN runs :
        (runs[r].finished_at # None /\ runs[r].summary # None)
            <=> runs[r].status = "FINISHED"

CountStatus(run_id, status) ==
    Cardinality({ j \in get_jobs_for_run(run_id) : jobs[j].status = status })

\* C6: on the step that makes a Run FINISHED, the summary stored on the Run
\* counts the Run's Jobs: total, done, failed, needs_search, and
\* total = done + failed + needs_search.
C6_StoredSummaryCountsJobs ==
    [][\A r \in DOMAIN runs :
          (runs[r].status # "FINISHED" /\ runs'[r].status = "FINISHED")
              => /\ runs'[r].summary # None
                 /\ runs'[r].summary.total = Cardinality(get_jobs_for_run(r))
                 /\ runs'[r].summary.done = CountStatus(r, "DONE")
                 /\ runs'[r].summary.failed = CountStatus(r, "FAILED")
                 /\ runs'[r].summary.needs_search = CountStatus(r, "NEEDS_SEARCH")]_vars

\* C7: on a Run that is not FINISHED and whose Jobs (at least one) are all
\* terminal, two finalize_run calls in sequence make one transition: the first
\* returns true and leaves the Run FINISHED, the second returns false and
\* changes nothing.
C7_FinalizeTwiceOneTransition ==
    \A r \in DOMAIN runs :
        (/\ runs[r].status # "FINISHED"
         /\ get_jobs_for_run(r) # {}
         /\ AllJobsTerminal(r))
            => LET first == finalize_run(runs, r)
                   second == finalize_run(first.runs, r)
               IN  /\ first.ret
                   /\ first.runs[r].status = "FINISHED"
                   /\ ~second.ret
                   /\ second.runs = first.runs

\* C8: of the finalize_run invocations on one Run, at most one returns true.
C8_AtMostOneFinalizerReturnsTrue ==
    \A f1, f2 \in Finalizers :
        (/\ f1 # f2
         /\ fin[f1].pc = "returned" /\ fin[f1].ret
         /\ fin[f2].pc = "returned" /\ fin[f2].ret)
            => fin[f1].run_id # fin[f2].run_id

\* C9: finalize_run on a Run that exists, is not FINISHED and has all its
\* Jobs (at least one) in DONE, FAILED or NEEDS_SEARCH returns true and makes
\* the Run FINISHED.
C9_FinalizeFinishesTerminalRun ==
    \A r \in DOMAIN runs :
        (/\ runs[r].status # "FINISHED"
         /\ get_jobs_for_run(r) # {}
         /\ AllJobsTerminal(r))
            => /\ finalize_run(runs, r).ret
               /\ finalize_run(runs, r).runs[r].status = "FINISHED"

AllBlank(channel_inputs) ==
    \A k \in 1..Len(channel_inputs) : IsBlank(channel_inputs[k])

\* C10: when start_run returns from inputs that are all empty or whitespace,
\* the Run has no Job, no task was enqueued for it, and it is FINISHED with
\* summary.total = 0.
C10_EmptyRunFinishedAtReturn ==
    [][(StartRunReturn /\ AllBlank(sr.channel_inputs))
          => /\ get_jobs_for_run(sr.run_id) = {}
             /\ \A m \in queue' : m.run_id # sr.run_id
             /\ runs'[sr.run_id].status = "FINISHED"
             /\ runs'[sr.run_id].summary # None
             /\ runs'[sr.run_id].summary.total = 0]_vars

\* The distinct non-empty trimmed inputs of a list.
TrimmedInputs(channel_inputs) ==
    { Strip(channel_inputs[k]) : k \in { i \in 1..Len(channel_inputs) : ~IsBlank(channel_inputs[i]) } }

\* C11: when start_run returns, the Jobs of the new Run have pairwise distinct
\* input_channel values after trimming, there is exactly one Job per distinct
\* non-empty trimmed input, and jobs_created is that number.
C11_StartRunDeduplicatesInputs ==
    [][StartRunReturn
          => LET js == get_jobs_for_run(sr.run_id)
                 n == Cardinality(TrimmedInputs(sr.channel_inputs))
             IN  /\ \A j1, j2 \in js :
                       Strip(jobs[j1].input_channel) = Strip(jobs[j2].input_channel) => j1 = j2
                 /\ Cardinality(js) = n
                 /\ sr.jobs_launched = n]_vars

RunStatusStep(old, new) ==
    \/ new = old
    \/ old = "PENDING" /\ new = "RUNNING"
    \/ old = "RUNNING" /\ new = "FINISHED"

\* C12: a Run's status changes only along PENDING -> RUNNING -> FINISHED, and
\* a Run that is FINISHED never changes status again.
C12_RunStatusMonotone ==
    [][\A r \in DOMAIN runs : RunStatusStep(runs[r].status, runs'[r].status)]_vars

\* A Run went RUNNING -> FINISHED, a finalize_run call made on it afterwards
\* has returned false, and a redelivered Job of it is being processed again.
C12_Witness ==
    \E r \in DOMAIN runs, f1, f2 \in Finalizers, w \in Workers :
        /\ runs[r].status = "FINISHED"
        /\ fin[f1].pc = "returned" /\ fin[f1].run_id = r /\ fin[f1].ret
        /\ fin[f2].pc = "returned" /\ fin[f2].run_id = r /\ ~fin[f2].ret
        /\ wk[w].pc = "resolving" /\ wk[w].run_id = r

\* C13: in every reachable state a Job has youtube_channel_id set if and only
\* if its status is DONE.
C13_ChannelIdIffDone ==
    \A j \in DOMAIN jobs :
        jobs[j].youtube_channel_id # None <=> jobs[j].status = "DONE"

\* C14: in every reachable state a Job has last_error set if and only if its
\* status is FAILED or NEEDS_SEARCH.
C14_LastErrorIffFailedOrNeedsSearch ==
    \A j \in DOMAIN jobs :
        jobs[j].last_error # None <=> jobs[j].status \in {"FAILED", "NEEDS_SEARCH"}

\* C15: when the soft time limit ends a process_channel_job execution during
\* the resolver call, the Job is left FAILED with last_error "TTL exceeded"
\* and a finalizer invocation for its Run is enqueued.
C15_SoftTimeLimitFailsJobAndFinalizes ==
    [][\A w \in Workers :
          WorkerSoftTimeLimit(w)
              => /\ jobs'[wk[w].job_id].status = "FAILED"
                 /\ jobs'[wk[w].job_id].last_error = "TTL exceeded"
                 /\ FinalizeRunTaskMsg(wk[w].run_id) \in queue']_vars

ConfiguredKeys == { api_keys[i] : i \in 1..Len(api_keys) }

\* C16: a key put on cooldown at time t gets cooldown end t + cooldown_time;
\* a _get_key call made before a key's cooldown end neither returns the key
\* nor brings it back to the live pool, whatever the order of the calls; a
\* _get_key call made at or after the end brings the key back to the pool.
C16_CooldownRespected ==
    [][/\ \A key \in ConfiguredKeys :
             CooldownKeyCall(key)
                 => \E i \in 1..Len(_cooldown_keys') :
                        _cooldown_keys'[i] = [key |-> key, cooldown_end |-> now + CooldownTime]
       /\ GetKeyCall
             => \A i \in 1..Len(_cooldown_keys) :
                    LET e == _cooldown_keys[i]
                    IN  /\ now < e.cooldown_end
                              => (last_key' # e.key /\ ~InLive(_api_keys', e.key))
                        /\ now >= e.cooldown_end
                              => (InLive(_api_keys', e.key)
                                  /\ ~InCooldown(_cooldown_keys', e.key))]_vars

\* The single key of a rotator was put on cooldown, the cooldown ran out, and
\* a _get_key call brought the key back and returned it.
C16_Witness ==
    /\ Len(api_keys) = 1
    /\ cooled
    /\ now >= CooldownTime
    /\ _cooldown_keys = <<>>
    /\ _api_keys = api_keys
    /\ last_key = api_keys[1]

C18_RoundRobinInConfiguredOrder ==
    (~cooled /\ get_key_calls >= 1)
        => last_key = api_keys[((get_key_calls - 1) % Len(api_keys)) + 1]

\* With three keys and no cooldown, the fourth call has returned the first key.
C18_Witness ==
    /\ ~cooled
    /\ Len(api_keys) = 3
    /\ get_key_calls = Len(api_keys) + 1
    /\ last_key = api_keys[1]

\* Every key is in the cooldown map with an end still ahead.
AllOnCooldown(live_keys, cooldown_keys, t) ==
    /\ live_keys = <<>>
    /\ \A i \in 1..Len(cooldown_keys) : cooldown_keys[i].cooldown_end > t

\* The caller's safe_execute ends in this step with the no-keys error, having
\* slept no more and called the API no more.
FailsWithNoKeys(c) ==
    /\ se'[c].pc = "raised"
    /\ se'[c].raised = NoKeys
    /\ se'[c].sleeps = se[c].sleeps
    /\ se'[c].transport = se[c].transport

C20_QuotaRetriesWhileKeysLive ==
    [][\A c \in Callers :
          (\E response \in HttpErrors :
               is_quota_error(response) /\ SafeExecuteResponse(c, response))
              => LET k == _cooldown_key(_api_keys, _cooldown_keys, se[c].api_key, now)
                 IN  /\ InCooldown(_cooldown_keys', se[c].api_key)
                     /\ _get_key(k._api_keys, k._cooldown_keys, now).key # NoKeys
                            => (se'[c].pc = "to_thread" /\ se'[c].sleeps = se[c].sleeps)]_vars

\* The outcome classes of the retry pipeline: QUOTA is HTTP 403 with reason
\* quotaExceeded, dailyLimitExceeded or userRateLimitExceeded; TRANSIENT is
\* HTTP 429 or >= 500; FATAL_CLIENT is any other 4xx.
QuotaOutcome(e) ==
    /\ status_code(e) = 403
    /\ e \in {"quotaExceeded", "dailyLimitExceeded", "userRateLimitExceeded"}

TransientOutcome(e) == status_code(e) = 429 \/ status_code(e) >= 500

FatalClientOutcome(e) ==
    /\ status_code(e) >= 400 /\ status_code(e) < 500
    /\ ~QuotaOutcome(e) /\ ~TransientOutcome(e)

\* C21: when an attempt of safe_execute on key k1 ends in QUOTA while another
\* key is live, k1 is on cooldown after the step and the next attempt is under
\* way with a live key other than k1; a payload that attempt gets is returned.
C21_QuotaRotatesToLiveKey ==
    [][\A c \in Callers :
          /\ \A response \in HttpErrors :
                (/\ QuotaOutcome(response)
                 /\ SafeExecuteResponse(c, response)
                 /\ \E i \in 1..Len(_api_keys) : _api_keys[i] # se[c].api_key)
                    => /\ InCooldown(_cooldown_keys', se[c].api_key)
                       /\ ~InLive(_api_keys', se[c].api_key)
                       /\ se'[c].pc = "to_thread"
                       /\ se'[c].api_key # se[c].api_key
                       /\ InLive(_api_keys', se'[c].api_key)
          /\ SafeExecuteResponse(c, "OK") => se'[c].pc = "returned"]_vars

\* C22: a FATAL_CLIENT outcome ends safe_execute in the same step with that
\* error: no further API call, no sleep, no key put on cooldown; when it is
\* the first outcome, exactly one API call was made.
C22_FatalClientFailsAtOnce ==
    [][\A c \in Callers, response \in HttpErrors :
          (FatalClientOutcome(response) /\ SafeExecuteResponse(c, response))
              => /\ se'[c].pc = "raised"
                 /\ se'[c].raised = response
                 /\ se'[c].transport = se[c].transport
                 /\ se'[c].sleeps = se[c].sleeps
                 /\ _api_keys' = _api_keys
                 /\ _cooldown_keys' = _cooldown_keys
                 /\ se[c].attempt = 0 => se'[c].transport = 1]_vars

\* A safe_execute call has failed with the 400 error of its first API call
\* and no key is on cooldown.
C22_Witness ==
    \E c \in Callers :
        /\ se[c].pc = "raised"
        /\ se[c].raised = "invalid_id"
        /\ se[c].transport = 1
        /\ se[c].sleeps = 0
        /\ _cooldown_keys = <<>>

SafeExecuteRunning(c) == se[c].pc \in {"throttle", "to_thread", "sleep"}
SafeExecuteEnded(c) == se[c].pc \in {"returned", "raised"}

\* C23: every safe_execute call ends, whatever the API outcomes; it makes at
\* most max_retries = 5 API calls, and when the loop runs out after a
\* TRANSIENT outcome the call fails with the last error observed.
C23_SafeExecuteTerminates ==
    /\ \A c \in Callers : SafeExecuteRunning(c) ~> SafeExecuteEnded(c)
    /\ [](\A c \in Callers : se[c].transport <= max_retries)
    /\ [][\A c \in Callers :
             (SafeExecuteWake(c) /\ se[c].attempt + 1 >= max_retries)
                 => /\ se'[c].pc = "raised"
                    /\ se'[c].raised = se[c].last_exception
                    /\ TransientOutcome(se[c].last_exception)
                    /\ se'[c].transport = se[c].transport]_vars

\* A safe_execute call has ended in the 500 error after five API calls, each
\* followed by a sleep.
C23_Witness ==
    \E c \in Callers :
        /\ se[c].pc = "raised"
        /\ se[c].raised = "backendError"
        /\ se[c].transport = max_retries
        /\ se[c].sleeps = max_retries

RECURSIVE UnsleptBetween(_, _)
UnsleptBetween(from, to) ==
    IF from > to THEN 0
    ELSE (IF from \in DOMAIN unslept THEN unslept[from] ELSE 0)
         + UnsleptBetween(from + 1, to)

\* C24: whatever the interleaving of the throttle callers, no window of
\* length period holds more than max_requests returns without sleep.
C24_AtMostMaxRequestsUnslept ==
    \A t \in 0..MaxTime : UnsleptBetween(t - period + 1, t) <= max_requests

\* C25: a throttle call cancelled during its sleep ends in the cancellation,
\* the cancelling step leaves the sorted set as it was, and the set never
\* holds a member of a cancelled call.
C25_CancelledSleepInsertsNothing ==
    /\ [](\A c \in Callers :
             th[c].pc = "cancelled" => \A m \in zset : m.id # th[c].id)
    /\ [][\A c \in Callers :
             (th[c].pc = "sleep" /\ th'[c].pc \notin {"sleep", "zadd_after"})
                 => /\ th'[c].pc = "cancelled"
                    /\ zset' = zset]_vars

\* A call was cancelled in its sleep while the sorted set held the entry it
\* was waiting for.
C25_Witness ==
    \E c \in Callers :
        /\ th[c].pc = "cancelled"
        /\ zset # {}
        /\ \A m \in zset : m.id # th[c].id

\* C26: a resolver invocation calls the API facade at most once, and not at
\* all for an input holding a channel ID; without a call it returns either
\* the ID found in the input or no ID at all.
C26_AtMostOneApiCall ==
    /\ rv.api_calls <= 1
    /\ rv.input.channel_id => rv.api_calls = 0
    /\ rv.pc = "returned" /\ rv.api_calls = 0
           => \/ rv.input.channel_id
              \/ rv.resolver = "resolver_v2" /\ rv.result.needs_search_fallback
              \/ rv.resolver = "resolver" /\ rv.result.status # "RESOLVED"

\* resolve_youtube_channel_id has returned "not found" after its one API call.
C26_Witness ==
    /\ rv.pc = "returned"
    /\ rv.api_calls = 1
    /\ rv.resolver = "resolver_v2"
    /\ rv.result.error = "not found"

\* C27: for every Run, get_run_status gives progress as a number, the ratio
\* of the Run's DONE, FAILED and NEEDS_SEARCH Jobs to all its Jobs, and 1.0
\* for a Run without Jobs.
C27_ProgressIsTerminalRatio ==
    \A run_id \in DOMAIN runs :
        LET total == Cardinality(get_jobs_for_run(run_id))
            terminal == status_count(run_id, "DONE") + status_count(run_id, "FAILED")
                          + status_count(run_id, "NEEDS_SEARCH")
        IN  /\ progress(run_id).type = "float"
            /\ progress(run_id).percent =
                  IF total = 0 THEN 100 ELSE Percent(terminal, total)

\* C28: create_run and create_job fail for an id the store already holds,
\* update_job fails for an id it does not hold, and a failed call leaves the
\* store's Runs and Jobs as they were.
C28_StoreFailuresChangeNothing ==
    [][/\ \A run \in StoreRuns :
            CreateRun(run) /\ run.id \in DOMAIN runs
                => raised' = AlreadyExists /\ runs' = runs /\ jobs' = jobs
       /\ \A job \in StoreJobs :
            CreateJob(job) /\ job.id \in DOMAIN jobs
                => raised' = AlreadyExists /\ runs' = runs /\ jobs' = jobs
       /\ \A job \in StoreJobs :
            UpdateJob(job) /\ job.id \notin DOMAIN jobs
                => raised' = NotFound /\ runs' = runs /\ jobs' = jobs
       /\ raised' # None => runs' = runs /\ jobs' = jobs]_vars

\* The store holds Run 1 and a Job 1 that was updated to DONE, and the last
\* call, for an id that does not fit, failed.
C28_Witness ==
    /\ raised = AlreadyExists
    /\ 1 \in DOMAIN runs
    /\ 1 \in DOMAIN jobs
    /\ jobs[1].status = "DONE"
    /\ 2 \notin DOMAIN jobs

\* C29: when a step of process_channel_job raises an unexpected error after
\* the Job was loaded, the task writes the Job as FAILED with the error's
\* message as last_error and ends there, the error handled.
C29_UnexpectedErrorFailsJob ==
    [][\A w \in Workers :
          WorkerException(w)
              => /\ jobs'[wk[w].job_id].status = "FAILED"
                 /\ jobs'[wk[w].job_id].last_error = "exception"
                 /\ wk'[w] = WkIdle
                 /\ \A j \in DOMAIN jobs \ {wk[w].job_id} : jobs'[j] = jobs[j]]_vars

\* A Job failed with the message of an unexpected error and its worker is
\* idle again.
C29_Witness ==
    \E j \in DOMAIN jobs :
        /\ jobs[j].status = "FAILED"
        /\ jobs[j].last_error = "exception"
        /\ \A w \in Workers : wk[w].pc = "idle"

\* C30: in _execute_request a QUOTA outcome makes the client rotate to the
\* next configured key, rebuild the service with it and repeat the request;
\* when the keys run out in a call that saw QUOTA outcomes only, the call
\* returns None and has made one request for each configured key.
C30_QuotaRotatesAndExhausts ==
    [][\A response \in HttpErrors :
          (RequestResponse(response) /\ QuotaOutcome(response))
              => IF _current_index + 1 < total_keys
                 THEN /\ _current_index' = _current_index + 1
                      /\ service_key' = AllKeys[_current_index + 2]
                      /\ xr'.pc = "request"
                      /\ xr'.requests = xr.requests + 1
                 ELSE /\ xr'.pc = "returned"
                      /\ xr'.result = None
                      /\ xr.sleeps = 0 => xr.requests = total_keys]_vars

\* C31: in a safe_execute call the sleep after the k-th TRANSIENT failure
\* has the base duration 2^(k-1), however many QUOTA outcomes came between.
C31_BackoffCountsTransientFailures ==
    \A c \in Callers :
        se[c].pc = "sleep" => se[c].wait_time = 2 ^ (se[c].sleeps - 1)

\* C32: in a safe_execute call every API call, the first and each retry, was
\* preceded by a throttle call of its own: as many throttle calls as API calls.
C32_ThrottleBeforeEveryAttempt ==
    \A c \in Callers :
        se[c].pc \in {"to_thread", "sleep", "returned", "raised"} /\ se[c].transport > 0
            => se[c].throttles = se[c].transport

\* C33: for an input with a /user/<name> URL (and no channel ID) the resolver
\* the worker calls has made exactly one API call when it returns, and its
\* result is a channel ID or an error, never needs_search_fallback.
C33_UserUrlResolvedByOneCall ==
    (/\ rv.resolver = "resolver_v2"
     /\ rv.pc = "returned"
     /\ ~rv.input.channel_id
     /\ rv.input.url = "user")
        => /\ rv.api_calls = 1
           /\ ~rv.result.needs_search_fallback
           /\ rv.result.youtube_channel_id # None \/ rv.result.error # None

\* C34: when the resolver returns to the worker, the Job is written with the
\* status its result calls for: DONE with the resolved channel id, or
\* NEEDS_SEARCH with a last_error for a needs-search result, or FAILED with
\* the result's error as last_error.
C34_TerminalStatusFromResolverResult ==
    [][\A w \in Workers, result \in ResolveResults :
          WorkerResolved(w, result)
              => LET job == jobs'[wk[w].job_id]
                 IN  IF result.youtube_channel_id # None
                     THEN /\ job.status = "DONE"
                          /\ job.youtube_channel_id = result.youtube_channel_id
                     ELSE IF result.needs_search_fallback
                     THEN /\ job.status = "NEEDS_SEARCH"
                          /\ job.last_error # None
                     ELSE /\ job.status = "FAILED"
                          /\ job.last_error = result.error]_vars

\* One Job is DONE with its channel id, another NEEDS_SEARCH with its
\* last_error, and the workers are idle.
C34_Witness ==
    /\ \E j \in DOMAIN jobs :
          jobs[j].status = "DONE" /\ jobs[j].youtube_channel_id \in ChannelIds
    /\ \E j \in DOMAIN jobs :
          jobs[j].status = "NEEDS_SEARCH" /\ jobs[j].last_error # None
    /\ \A w \in Workers : wk[w].pc = "idle"

\* C35: the counts finalize_run reports are those of the instant at which it
\* found every Job terminal.  The summary is counted when the call returns,
\* so this asks that from the decision to the return no step changes how
\* many of the Run's Jobs are DONE (failed is total minus done).
C35_SummaryCountsDecisionSnapshot ==
    [][\A f \in Finalizers :
          fin[f].pc = "finishing"
              => Cardinality({ j \in fin[f].jobs : jobs'[j].status = "DONE" })
                   = Cardinality({ j \in fin[f].jobs : jobs[j].status = "DONE" })]_vars

\* C36: start_run stores the Run before it creates a Job and stores a Job
\* before it enqueues the Job's task, so every message in the broker names a
\* stored Job of a stored Run, and a worker that takes a message finds both
\* and goes on to the resolver.
C36_EnqueuedTaskFindsJobAndRun ==
    /\ [](/\ sr.pc \in {"loop", "delay"} => get_run(sr.run_id) # {}
          /\ sr.pc = "delay" => get_job(sr.job_id) # {}
          /\ \A m \in queue :
                /\ get_job(m.job_id) # {}
                /\ get_run(m.run_id) # {}
                /\ jobs[m.job_id].run_id = m.run_id)
    /\ [][\A w \in Workers, m \in Messages, again \in BOOLEAN :
             WorkerStart(w, m, again)
                 => /\ wk'[w].pc = "resolving"
                    /\ jobs'[m.job_id].status = "PROCESSING"]_vars

\* A worker is at the resolver for a Job while start_run is still in its loop.
C36_Witness ==
    /\ sr.pc \in {"loop", "delay"}
    /\ \E w \in Workers :
          /\ wk[w].pc = "resolving"
          /\ jobs[wk[w].job_id].status = "PROCESSING"
          /\ wk[w].run_id = sr.run_id

\* How often key occurs in the live pool and in the cooldown map.
LiveOccurrences(key) == Cardinality({ i \in 1..Len(_api_keys) : _api_keys[i] = key })
CooldownOccurrences(key) ==
    Cardinality({ i \in 1..Len(_cooldown_keys) : _cooldown_keys[i].key = key })

\* C37: with pairwise distinct configured keys, after any sequence of
\* _get_key and _cooldown_key calls every configured key occurs exactly once
\* in the live pool and the cooldown map taken together.
C37_KeysConserved ==
    \A key \in ConfiguredKeys :
        LiveOccurrences(key) + CooldownOccurrences(key) = 1

\* Of three keys one is on cooldown and two are live, after _get_key calls
\* that rotated the pool.
C37_Witness ==
    /\ Len(api_keys) = 3
    /\ get_key_calls >= 2
    /\ Len(_cooldown_keys) = 1
    /\ Len(_api_keys) = 2
    /\ _cooldown_keys[1].key \in ConfiguredKeys

\* C38: the KeyRotator's index stays within the configured keys,
\* 0 <= _current_index < total_keys, so get_key returns a configured key.
C38_CurrentIndexInRange ==
    /\ 0 <= _current_index
    /\ _current_index < total_keys
    /\ get_key(_current_index, total_keys)
          \in { AllKeys[i] : i \in 1..total_keys }

\* C39: every _execute_request call returns, a response or None; its loop
\* makes at most one pass for each configured key, and a pass makes at most
\* MAX_RETRIES requests.
C39_ExecuteRequestTerminates ==
    /\ xr.pc \in {"request", "sleep"} ~> xr.pc = "returned"
    /\ [](/\ xr.calls <= MAX_RETRIES
          /\ xr.builds + 1 <= total_keys
          /\ xr.pc = "returned" => xr.result \in {"OK", None})

\* A call on three keys has returned None after a pass for each key, one of
\* them with a retry.
C39_Witness ==
    /\ xr.pc = "returned"
    /\ xr.result = None
    /\ total_keys = 3
    /\ xr.builds = 2
    /\ xr.sleeps >= 1

\* The entries of a cooldown map.
CooldownEntries(cooldown_keys) == { cooldown_keys[i] : i \in 1..Len(cooldown_keys) }

\* C40: in safe_execute a key enters the cooldown map only in the step in
\* which an attempt that used this key ends in QUOTA; an attempt that ends in
\* success, TRANSIENT, FATAL_CLIENT or a non-HTTP failure leaves the live
\* pool and the cooldown map as they were.
C40_CooldownOnlyFromQuotaOnThatKey ==
    [][/\ \A e \in CooldownEntries(_cooldown_keys') \ CooldownEntries(_cooldown_keys) :
             \E c \in Callers, response \in HttpErrors :
                 /\ SafeExecuteResponse(c, response)
                 /\ QuotaOutcome(response)
                 /\ e.key = se[c].api_key
       /\ \A c \in Callers, response \in Responses :
             (/\ SafeExecuteResponse(c, response)
              /\ response \in HttpErrors => ~QuotaOutcome(response))
                 => /\ _api_keys' = _api_keys
                    /\ _cooldown_keys' = _cooldown_keys]_vars

\* One caller's attempt ended in QUOTA and its key is on cooldown, while the
\* other caller sleeps after a TRANSIENT outcome with its key still live.
C40_Witness ==
    \E c, d \in Callers :
        /\ se[c].last_exception = "quotaExceeded"
        /\ Len(_cooldown_keys) = 1
        /\ se[d].pc = "sleep"
        /\ InLive(_api_keys, se[d].api_key)

====
